---- MODULE Spec2Model ----
(***************************************************************************)
(* Model of the PINN trainer of src/pinn.py: configuration derived from    *)
(* (dim, heter, inverse), model assembly (define_pinn), the stabilized     *)
(* initialization loop (stable_init), the 1-phase / 3-phase training      *)
(* schedules (train, train_1_phase, train_3_phase) and the reconstruction  *)
(* of electrode potentials (num_integration).                              *)
(*                                                                         *)
(* The deepxde engine is a black box: building a network, a data object, a *)
(* model or a callback allocates a new object identity; compile sets the   *)
(* model's optimizer configuration; train returns a loss history whose     *)
(* first loss vector is an arbitrary vector of floats.                     *)
(* num_integration is followed up to the shapes of its arrays, the line    *)
(* it stops at, and whether the potentials it writes are zero.             *)
(*                                                                         *)
(* Floats: a loss is NaN or a number in tenths (39 is 3.9).  Learning      *)
(* rates are in units of 1e-4 (5 is 0.0005).  A Python string is the       *)
(* sequence of its characters; an optional value is a record with a flag.  *)
(***************************************************************************)
EXTENDS Integers, Sequences, FiniteSets, TLC

\* ---------------------------------------------------------------- bounds
\* calls of define_pinn and train made on one trainer
MaxOps == 3
\* components in the first reported loss vector
MaxLossLen == 2
\* the grid of num_integration: max_x, max_y, max_t and electrode columns
MaxX == 4
MaxY == 5
MaxT == 2
NumElec == 2

\* ------------------------------------------------------- values of inputs
NaN == [nan |-> TRUE, v |-> 0]
Num(x) == [nan |-> FALSE, v |-> x]
\* NaN, 3.9, 4.0, 5.0
LossVals == {NaN, Num(39), Num(40), Num(50)}
LossVectors == UNION {[1..n -> LossVals] : n \in 1..MaxLossLen}

None == [none |-> TRUE, chars |-> <<>>]
Str(s) == [none |-> FALSE, chars |-> s]
\* None, "", "d", "a", "ad"
InverseVals == {None, Str(<<>>), Str(<<"d">>), Str(<<"a">>), Str(<<"a", "d">>)}
DimVals == {1, 2, 3}

\* Python truthiness of an optional string: None and "" are false
Truthy(s) == ~s.none /\ Len(s.chars) > 0
\* 'd' in self.inverse
Contains(s, c) == \E i \in 1..Len(s.chars) : s.chars[i] = c

\* Python float comparison a > b (b a number in whole units): false for NaN
GT(a, b) == ~a.nan /\ a.v > 10 * b
isnan(a) == a.nan
\* a > b between two floats, as used by max()
FloatGT(a, b) == ~a.nan /\ ~b.nan /\ a.v > b.v

\* Python's max(iterable): keeps the first item and replaces it only by an
\* item that compares greater
RECURSIVE MaxFrom(_, _, _)
MaxFrom(vec, i, best) ==
    IF i > Len(vec) THEN best
    ELSE MaxFrom(vec, i + 1, IF FloatGT(vec[i], best) THEN vec[i] ELSE best)
max(vec) == MaxFrom(vec, 2, vec[1])

\* ------------------------------------------------------ program constants
LR_DEFAULT == 5
LR_INVERSE == 1
LR_WARMUP == 5
MAX_MODEL_INIT == 16
MAX_LOSS == 4
CALLBACK_PERIOD == 1000

\* ------------------------------------------------------------ constructor
\* PINN.__init__ lines 16-29: the 1D defaults
Defaults ==
    [input |-> 2, num_hidden_layers |-> 4, hidden_layer_size |-> 32,
     output |-> 2 + 1,
     num_domain |-> 20000, num_boundary |-> 1000, num_test |-> 1000,
     MAX_MODEL_INIT |-> MAX_MODEL_INIT, MAX_LOSS |-> MAX_LOSS,
     epochs_init |-> 15000, epochs_main |-> 1000, lr |-> LR_DEFAULT]

modify_dim(h, d) ==
    IF d = 2
    THEN [h EXCEPT !.input = 3, !.num_hidden_layers = 5,
                   !.hidden_layer_size = 60, !.num_domain = 40000,
                   !.num_boundary = 4000, !.epochs_main = 150000]
    ELSE h

modify_heter(h, ht) == IF ht THEN [h EXCEPT !.output = 3] ELSE h

\* the learning-rate overlay testing "is not None" instead of truthiness
modify_inverse_NotNone(h, inv) == IF ~inv.none THEN [h EXCEPT !.lr = LR_INVERSE] ELSE h

modify_inverse(h, inv) == IF Truthy(inv) THEN [h EXCEPT !.lr = LR_INVERSE] ELSE h

modify_2d_const(h, d, ht, inv) ==
    modify_inverse(modify_heter(modify_dim(h, d), ht), inv)

\* --------------------------------------------------------------- objects
\* no object bound to the attribute yet
NoNet == [id |-> 0, layers |-> <<>>, activation |-> "", init |-> "", transforms |-> <<>>]
NoData == [id |-> 0, pde |-> "", num_domain |-> 0, num_boundary |-> 0, num_test |-> 0]
NoModel == [id |-> 0, net |-> 0, data |-> 0, optimizer |-> "", lr |-> <<>>, loss_weights |-> <<>>]
NoCallback == [id |-> 0, period |-> 0, filename |-> <<>>]
NoHistory == [model |-> 0, phase |-> ""]

\* identity of a newly allocated object: distinct from every live object
Fresh(live) == CHOOSE i \in 1..(Cardinality(live) + 1) : i \notin live /\ \A j \in 1..(i - 1) : j \in live

\* [n] * k
Repeat(n, k) == [i \in 1..k |-> n]

\* the trainer's attributes, the position and locals of the running call,
\* the outcome of the last define_pinn or train call (result, err, last),
\* and the history of the running train():
\*   calls      engine calls made by the training phases
\*   si_call    the latest single-epoch stabilization training call
\*   trained    single-epoch trainings run by stable_init
\*   rebuilt    models rebuilt by stable_init
\*   first_good index of the first attempt whose loss was acceptable (0: none)
\*   scenario   how far the observed losses follow NaN, 5.0, 3.9
\*   loss_nan   the latest first-epoch loss vector had a NaN component
\*   cbs        VariableValue observers constructed
\* recon is the frame of a running num_integration: its arguments, its
\* locals, the last line it reached and what it hands to its caller
VARIABLES dim, heter, inverse, hp, net, pde_data, model,
          pc, ops, num_init, initial_loss, losshistory, train_state, variable,
          calls, si_call, trained, rebuilt, first_good, scenario, loss_nan, cbs,
          result, err, last, recon

vars == <<dim, heter, inverse, hp, net, pde_data, model,
          pc, ops, num_init, initial_loss, losshistory, train_state, variable,
          calls, si_call, trained, rebuilt, first_good, scenario, loss_nan, cbs,
          result, err, last, recon>>

problem == <<dim, heter, inverse, hp>>
objects == <<net, pde_data, model>>
locals == <<num_init, initial_loss, losshistory, train_state, variable>>
ghosts == <<calls, si_call, trained, rebuilt, first_good, scenario, loss_nan, cbs>>
outcome == <<result, err, last>>

NoCall == [op |-> "", model |-> 0, optimizer |-> "", lr |-> <<>>,
           loss_weights |-> <<>>, epochs |-> <<>>, callbacks |-> <<>>]
NoResult == [model |-> 0, losshistory |-> NoHistory, train_state |-> NoHistory]

\* no num_integration is running
NoArray == [shape |-> <<>>, entries |-> ""]
NoRecon ==
    [X |-> 0, Y |-> 0, tend |-> 0, K |-> 0, D |-> [scalar |-> TRUE, shape |-> <<>>],
     size |-> 0, uniform |-> FALSE, on_node |-> FALSE, D_array |-> "", line |-> 0, err |-> "none",
     phie_pred |-> NoArray]

Init ==
    /\ dim \in DimVals
    /\ heter \in BOOLEAN
    /\ inverse \in InverseVals
    /\ hp = modify_2d_const(Defaults, dim, heter, inverse)
    /\ net = NoNet
    /\ pde_data = NoData
    /\ model = NoModel
    /\ pc = "idle"
    /\ ops = 0
    /\ num_init = 0
    /\ initial_loss = NaN
    /\ losshistory = NoHistory
    /\ train_state = NoHistory
    /\ variable = NoCallback
    /\ calls = <<>>
    /\ si_call = NoCall
    /\ trained = 0
    /\ rebuilt = 0
    /\ first_good = 0
    /\ scenario = 0
    /\ loss_nan = FALSE
    /\ cbs = 0
    /\ result = NoResult
    /\ err = "none"
    /\ last = ""
    /\ recon = NoRecon

\* ------------------------------------------------------------ the engine
\* dde.maps.FNN(layer_sizes, "tanh", "Glorot uniform")
FNN(layers, live) ==
    [id |-> Fresh(live), layers |-> layers, activation |-> "tanh",
     init |-> "Glorot uniform", transforms |-> <<>>]

\* net.apply_output_transform(f)
apply_output_transform(n, f) == [n EXCEPT !.transforms = Append(@, f)]

\* dde.Model(data, net): not compiled yet
Model(data, n, live) ==
    [id |-> Fresh(live), net |-> n.id, data |-> data.id,
     optimizer |-> "", lr |-> <<>>, loss_weights |-> <<>>]

\* model.compile(optimizer, lr=..., loss_weights=...); <<>> is "not given"
compile(m, optimizer, lr, loss_weights) ==
    [m EXCEPT !.optimizer = optimizer, !.lr = lr, !.loss_weights = loss_weights]

\* the record of one engine call made by a training phase
CompileCall(m) ==
    [op |-> "compile", model |-> m.id, optimizer |-> m.optimizer, lr |-> m.lr,
     loss_weights |-> m.loss_weights, epochs |-> <<>>, callbacks |-> <<>>]
TrainCall(m, epochs, callbacks) ==
    [op |-> "train", model |-> m.id, optimizer |-> m.optimizer, lr |-> m.lr,
     loss_weights |-> m.loss_weights, epochs |-> epochs, callbacks |-> callbacks]

\* ----------------------------------------------------------- define_pinn
\* lines 53-63: the residual and the output transform ("" is none);
\* pde stays unbound when no branch is taken
NetLayers(h) ==
    <<h.input>> \o Repeat(h.hidden_layer_size, h.num_hidden_layers) \o <<h.output>>

\* the residual selection without the 'd' test
select_pde_AnyInverse(d, ht, inv) ==
    IF d = 1 THEN [pde |-> "pde_1D", transform |-> ""]
    ELSE IF d = 2 /\ ht THEN
        IF Truthy(inv)
        THEN [pde |-> "pde_2D_heter", transform |-> "modify_inv_heter"]
        ELSE [pde |-> "pde_2D_heter_forward", transform |-> "modify_heter"]
    ELSE IF d = 2 /\ ~ht THEN [pde |-> "pde_2D", transform |-> ""]
    ELSE [pde |-> "unbound", transform |-> ""]

select_pde(d, ht, inv) ==
    IF d = 1 THEN [pde |-> "pde_1D", transform |-> ""]
    ELSE IF d = 2 /\ ht THEN
        IF Truthy(inv) /\ Contains(inv, "d")
        THEN [pde |-> "pde_2D_heter", transform |-> "modify_inv_heter"]
        ELSE [pde |-> "pde_2D_heter_forward", transform |-> "modify_heter"]
    ELSE IF d = 2 /\ ~ht THEN [pde |-> "pde_2D", transform |-> ""]
    ELSE [pde |-> "unbound", transform |-> ""]

TimePDE(pde, h, live) ==
    [id |-> Fresh(live), pde |-> pde, num_domain |-> h.num_domain,
     num_boundary |-> h.num_boundary, num_test |-> h.num_test]

\* the history of the previous train() is dropped
NoTrainHistory ==
    /\ calls' = <<>>
    /\ si_call' = NoCall
    /\ trained' = 0
    /\ rebuilt' = 0
    /\ first_good' = 0
    /\ scenario' = 0
    /\ loss_nan' = FALSE
    /\ cbs' = 0

define_pinn ==
    /\ pc = "idle"
    /\ ops < MaxOps
    /\ ops' = ops + 1
    /\ LET sel == select_pde(dim, heter, inverse)
           n0 == FNN(NetLayers(hp), {net.id, model.net} \ {0})
           n1 == IF sel.transform = "" THEN n0 ELSE apply_output_transform(n0, sel.transform)
           d1 == TimePDE(sel.pde, hp, {pde_data.id, model.data} \ {0})
           m1 == Model(d1, n1, {model.id} \ {0})
       IN  /\ net' = n1
           /\ IF sel.pde = "unbound"
              THEN \* line 66 reads the unassigned local pde
                   /\ err' = "UnboundLocalError"
                   /\ UNCHANGED <<pde_data, model>>
              ELSE /\ pde_data' = d1
                   /\ model' = compile(m1, "adam", <<hp.lr>>, <<>>)
                   /\ err' = "none"
    /\ result' = NoResult
    /\ last' = "define_pinn"
    /\ NoTrainHistory
    /\ UNCHANGED recon
    /\ UNCHANGED <<pc, problem, locals>>

\* ----------------------------------------------------------- stable_init
\* the loop condition without the NaN test
Bad_NoNaN(loss, max_loss) == GT(loss, max_loss)

\* line 81: the condition of the retry loop
Bad(loss, max_loss) == GT(loss, max_loss) \/ isnan(loss)

\* the limit test off by one
Exceeded_Ge(n, max_init) == n >= max_init

\* no limit test at all
Exceeded_Never(n, max_init) == FALSE

\* line 87: the attempt counter is over the limit
Exceeded(n, max_init) == n > max_init

\* lines 83-84: the model of the next attempt
Rebuild(data, n, lr, live) == compile(Model(data, n, live), "adam", <<lr>>, <<>>)

\* what the specification calls an acceptable first-epoch loss
Acceptable(loss) == ~loss.nan /\ loss.v <= 40

\* the example of the specification: NaN, 5.0, 3.9
Example == <<NaN, Num(50), Num(39)>>
Follow(sc, k, loss) ==
    IF k <= Len(Example) /\ sc = k - 1 /\ loss = Example[k] THEN k ELSE 0 - 1

\* one single-epoch training: model.train(epochs=1) and max(loss_train[0])
Observe(m, lv, k, fg, sc) ==
    /\ losshistory' = [model |-> m.id, phase |-> "stable_init"]
    /\ initial_loss' = max(lv)
    /\ loss_nan' = \E i \in 1..Len(lv) : isnan(lv[i])
    /\ si_call' = TrainCall(m, <<1>>, <<>>)
    /\ trained' = k
    /\ first_good' = IF fg = 0 /\ Acceptable(max(lv)) THEN k ELSE fg
    /\ scenario' = Follow(sc, k, max(lv))

\* train() line 95 entering stable_init, lines 78-80
stable_init_first ==
    /\ pc = "idle"
    /\ ops < MaxOps
    /\ ops' = ops + 1
    /\ result' = NoResult
    /\ UNCHANGED recon
    /\ IF model = NoModel
       THEN \* self.model does not exist
            /\ err' = "AttributeError"
            /\ last' = "train"
            /\ NoTrainHistory
            /\ UNCHANGED <<pc, locals>>
       ELSE /\ \E lv \in LossVectors : Observe(model, lv, 1, 0, 0)
            /\ calls' = <<>>
            /\ cbs' = 0
            /\ rebuilt' = 0
            /\ num_init' = 1
            /\ pc' = "si_loop"
            /\ err' = "none"
            /\ last' = ""
            /\ UNCHANGED <<train_state, variable>>
    /\ UNCHANGED <<problem, objects>>

\* lines 81-86: the loop condition holds; rebuild, recompile, train one epoch
stable_init_reinit ==
    /\ pc = "si_loop"
    /\ Bad(initial_loss, hp.MAX_LOSS)
    /\ num_init' = num_init + 1
    /\ model' = Rebuild(pde_data, net, hp.lr, {model.id})
    /\ rebuilt' = rebuilt + 1
    /\ \E lv \in LossVectors : Observe(model', lv, trained + 1, first_good, scenario)
    /\ pc' = "si_check"
    /\ UNCHANGED <<problem, net, pde_data, ops, train_state, variable, calls, cbs, outcome, recon>>

\* lines 87-88
stable_init_check ==
    /\ pc = "si_check"
    /\ IF Exceeded(num_init, hp.MAX_MODEL_INIT)
       THEN /\ pc' = "idle"
            /\ err' = "ValueError"
            /\ last' = "train"
            /\ num_init' = 0
            /\ initial_loss' = NaN
            /\ losshistory' = NoHistory
            /\ UNCHANGED result
       ELSE /\ pc' = "si_loop"
            /\ UNCHANGED <<num_init, initial_loss, losshistory, outcome>>
    /\ UNCHANGED <<problem, objects, ops, train_state, variable, ghosts, recon>>

\* line 81 false, line 89: back in train() at line 97
stable_init_return ==
    /\ pc = "si_loop"
    /\ ~Bad(initial_loss, hp.MAX_LOSS)
    /\ pc' = "dispatch"
    /\ num_init' = 0
    /\ initial_loss' = NaN
    /\ losshistory' = NoHistory
    /\ UNCHANGED <<problem, objects, ops, train_state, variable, ghosts, outcome, recon>>

\* ------------------------------------------------- train_1_phase / _3_phase
\* lines 105-106 and 115-116: the observer, when inverse is set
variables_file(inv) == <<"variables_">> \o inv.chars \o <<".dat">>
VariableValue(inv, k) == [id |-> k, period |-> CALLBACK_PERIOD, filename |-> variables_file(inv)]
\* the observer attached whenever inverse is not None
Tracking_NotNone(inv) == ~inv.none

Tracking(inv) == Truthy(inv)

\* callbacks=[variable], or no callbacks argument
Callbacks(inv, cb) == IF Tracking(inv) THEN <<cb>> ELSE <<>>

init_weights == <<0, 0, 0, 0, 1>>
\* lines 118/128, 121/131, 124/134: the three compile calls
\* the warmup compiled at the configured learning rate
compile_init_ConfiguredLr(m, h) == compile(m, "adam", <<h.lr>>, init_weights)

compile_init(m, h) == compile(m, "adam", <<LR_WARMUP>>, init_weights)
compile_main(m, h) == compile(m, "adam", <<h.lr>>, <<>>)
compile_final(m, h) == compile(m, "L-BFGS-B", <<>>, <<>>)

\* the result of model.train in a phase
Produced(m, phase) == [model |-> m.id, phase |-> phase]

\* the schedules exchanged between the dimensions
train_dispatch_Swapped(d) ==
    IF d = 2 THEN "train_1_phase" ELSE IF d = 1 THEN "train_3_phase" ELSE "none"

\* lines 97-100: the schedule train() dispatches to
train_dispatch(d) ==
    IF d = 1 THEN "train_1_phase" ELSE IF d = 2 THEN "train_3_phase" ELSE "none"

\* the final phase keeping the result of the main phase
final_result_Kept(m) == Produced(m, "main")

\* lines 125/135: losshistory, train_state of the final phase
final_result(m) == Produced(m, "final")

\* the warmup rate stored in self.lr
attrs_after_compile_init_Overwrite(h) == [h EXCEPT !.lr = LR_WARMUP]

\* lines 118/128: lr=0.0005 is an argument of compile; no attribute is assigned
attrs_after_compile_init(h) == h

\* lines 97-98 and 103-110
train_1_phase ==
    /\ pc = "dispatch"
    /\ train_dispatch(dim) = "train_1_phase"
    /\ LET cb == VariableValue(inverse, cbs + 1)
       IN  /\ variable' = IF Tracking(inverse) THEN cb ELSE variable
           /\ cbs' = IF Tracking(inverse) THEN cbs + 1 ELSE cbs
           /\ calls' = Append(calls, TrainCall(model, <<hp.epochs_main>>, Callbacks(inverse, cb)))
    /\ losshistory' = Produced(model, "main")
    /\ train_state' = Produced(model, "main")
    /\ pc' = "ret"
    /\ UNCHANGED <<problem, objects, ops, num_init, initial_loss,
                   si_call, trained, rebuilt, first_good, scenario, loss_nan, outcome, recon>>

\* lines 99-100, 113-119 / 128-129: initial phase
train_3_phase_init ==
    /\ pc = "dispatch"
    /\ train_dispatch(dim) = "train_3_phase"
    /\ hp' = attrs_after_compile_init(hp)
    /\ LET cb == VariableValue(inverse, cbs + 1)
       IN  /\ variable' = IF Tracking(inverse) THEN cb ELSE variable
           /\ cbs' = IF Tracking(inverse) THEN cbs + 1 ELSE cbs
           /\ model' = compile_init(model, hp)
           /\ calls' = calls \o <<CompileCall(model'),
                                  TrainCall(model', <<hp.epochs_init>>, Callbacks(inverse, cb))>>
    /\ losshistory' = Produced(model', "init")
    /\ train_state' = Produced(model', "init")
    /\ pc' = "p3_main"
    /\ UNCHANGED <<dim, heter, inverse, net, pde_data, ops, num_init, initial_loss,
                   si_call, trained, rebuilt, first_good, scenario, loss_nan, outcome, recon>>

\* lines 121-122 / 131-132: main phase
train_3_phase_main ==
    /\ pc = "p3_main"
    /\ model' = compile_main(model, hp)
    /\ calls' = calls \o <<CompileCall(model'),
                           TrainCall(model', <<hp.epochs_main>>, Callbacks(inverse, variable))>>
    /\ losshistory' = Produced(model', "main")
    /\ train_state' = Produced(model', "main")
    /\ pc' = "p3_final"
    /\ UNCHANGED <<problem, net, pde_data, ops, num_init, initial_loss, variable,
                   si_call, trained, rebuilt, first_good, scenario, loss_nan, cbs, outcome, recon>>

\* lines 124-125 / 134-135: final phase, no epochs argument
train_3_phase_final ==
    /\ pc = "p3_final"
    /\ model' = compile_final(model, hp)
    /\ calls' = calls \o <<CompileCall(model'),
                           TrainCall(model', <<>>, Callbacks(inverse, variable))>>
    /\ losshistory' = final_result(model')
    /\ train_state' = final_result(model')
    /\ pc' = "ret"
    /\ UNCHANGED <<problem, net, pde_data, ops, num_init, initial_loss, variable,
                   si_call, trained, rebuilt, first_good, scenario, loss_nan, cbs, outcome, recon>>

\* line 101: return self.model, losshistory, train_state; the two locals are
\* unassigned when neither branch of lines 97-100 was taken
train_return ==
    /\ \/ pc = "ret"
       \/ pc = "dispatch" /\ train_dispatch(dim) = "none"
    /\ IF pc = "ret"
       THEN /\ result' = [model |-> model.id, losshistory |-> losshistory,
                          train_state |-> train_state]
            /\ err' = "none"
       ELSE /\ result' = NoResult
            /\ err' = "UnboundLocalError"
    /\ last' = "train"
    /\ pc' = "idle"
    /\ losshistory' = NoHistory
    /\ train_state' = NoHistory
    /\ variable' = NoCallback
    /\ UNCHANGED <<problem, objects, ops, num_init, initial_loss, ghosts, recon>>

\* -------------------------------------------------------- num_integration
\* the collaborator's grid: extents max_x, max_y, time steps max_t, and the
\* number K of electrode columns
GridVals == {<<MaxX, MaxY>>}
TimeVals == {MaxT}
ElecVals == {NumElec}
Scalar == [scalar |-> TRUE, shape |-> <<>>]
Array(shape) == [scalar |-> FALSE, shape |-> shape]
\* dynamics.D: a scalar, or an array of some shape
DVals(X, Y) ==
    {Scalar, Array(<<>>), Array(<<X + 2>>), Array(<<X + 2, Y + 2>>),
     Array(<<X + 2, Y>>), Array(<<X + 2, Y + 2, 2>>)}

\* the attributes __init__ assigns (lines 10-29), and those of define_pinn
InitAttrs ==
    {"dynamics", "dim", "heter", "inverse", "input", "num_hidden_layers",
     "hidden_layer_size", "output", "num_domain", "num_boundary", "num_test",
     "MAX_MODEL_INIT", "MAX_LOSS", "epochs_init", "epochs_main", "lr"}
HasAttr(name) ==
    \/ name \in InitAttrs
    \/ name = "net" /\ net # NoNet
    \/ name = "pde_data" /\ pde_data # NoData
    \/ name = "model" /\ model # NoModel

\* the diffusion array taken from any array, whatever its shape
select_D_AnyArray(D, X, Y) ==
    IF D.scalar THEN "broadcast" ELSE "stripped"

\* lines 143-146: D_array is broadcast from a scalar, or the padded array
\* without its border, or stays unbound; np.shape(D)[i] fails on a missing axis
select_D(D, X, Y) ==
    IF D.scalar THEN "broadcast"
    ELSE IF Len(D.shape) < 1 THEN "IndexError"
    ELSE IF D.shape[1] = X + 2
         THEN IF Len(D.shape) < 2 THEN "IndexError"
              ELSE IF D.shape[2] = Y + 2 THEN "stripped" ELSE "unbound"
         ELSE "unbound"

\* the number of axes of D_array
D_array_ndim(D, sel) == IF sel = "broadcast" THEN 2 ELSE Len(D.shape)

\* lines 153-164: du is zero everywhere when the field and D_array are
\* uniform; an electrode on an interior grid node has distance 0 to it, and
\* du / distance is then 0/0 there
potential(uniform, sel, on_node) ==
    IF uniform /\ sel = "broadcast"
    THEN IF on_node THEN "nan" ELSE "zero"
    ELSE "any"

\* lines 139-165 on the arguments; line is the last line reached
num_integration_run(X, Y, tend, K, D, size, uniform, on_node) ==
    LET sel == select_D(D, X, Y)
        stop(ln, e, da) == [line |-> ln, err |-> e, D_array |-> da, phie_pred |-> NoArray]
    IN  IF size # tend * X * Y THEN stop(139, "ValueError", "")
        ELSE IF sel = "IndexError" THEN stop(145, "IndexError", "unbound")
        ELSE IF sel = "unbound" THEN stop(147, "UnboundLocalError", "unbound")
        ELSE IF ~HasAttr("spacing") THEN stop(147, "AttributeError", sel)
        ELSE IF D_array_ndim(D, sel) # 2 THEN stop(147, "TypeError", sel)
        ELSE [line |-> 165, err |-> "none", D_array |-> sel,
              phie_pred |-> [shape |-> <<K, tend>>,
                             entries |-> potential(uniform, sel, on_node)]]

\* lines 138-165: the call reads the trainer and assigns nothing of it
num_integration ==
    /\ pc = "idle"
    /\ pc' = "ni"
    /\ \E g \in GridVals, tend \in TimeVals, K \in ElecVals,
          uniform \in BOOLEAN, on_node \in BOOLEAN :
           \E D \in DVals(g[1], g[2]), size \in {tend * g[1] * g[2], tend * g[1] * g[2] + 1} :
               LET X == g[1]
                   Y == g[2]
                   out == num_integration_run(X, Y, tend, K, D, size, uniform, on_node)
               IN  /\ recon' = [X |-> X, Y |-> Y, tend |-> tend, K |-> K, D |-> D,
                                size |-> size, uniform |-> uniform, on_node |-> on_node,
                                D_array |-> out.D_array, line |-> out.line,
                                err |-> out.err, phie_pred |-> out.phie_pred]
    /\ UNCHANGED <<ops, problem, objects, locals, ghosts, outcome>>

\* line 165, or the exception leaving the call: the frame is gone
num_integration_return ==
    /\ pc = "ni"
    /\ pc' = "idle"
    /\ recon' = NoRecon
    /\ UNCHANGED <<ops, problem, objects, locals, ghosts, outcome>>

Next ==
    \/ num_integration
    \/ num_integration_return
    \/ define_pinn
    \/ stable_init_first
    \/ stable_init_reinit
    \/ stable_init_check
    \/ stable_init_return
    \/ train_1_phase
    \/ train_3_phase_init
    \/ train_3_phase_main
    \/ train_3_phase_final
    \/ train_return

Spec == Init /\ [][Next]_vars

\* a running stable_init goes on: model.train(epochs=1) returns, and the
\* interpreter then executes lines 81-89 one after the other
FairSpec ==
    Spec /\ WF_vars(stable_init_reinit \/ stable_init_check \/ stable_init_return)

\* ================================================================ claims
\* positions of a running or finished call
InStableInit == pc \in {"si_loop", "si_check"}
Accepted ==
    \/ pc \in {"dispatch", "p3_main", "p3_final", "ret"}
    \/ pc = "idle" /\ last = "train" /\ err = "none"
Failed == pc = "idle" /\ last = "train" /\ err = "ValueError"

\* C1: stable_init rebuilds once for each leading loss that is NaN or above
\* 4 and accepts at the first attempt k <= 16 whose loss is finite and <= 4,
\* after exactly k-1 rebuilds; the losses NaN, 5.0, 3.9 give two rebuilds and
\* acceptance on the third attempt.
Thm_C1_AcceptAtFirstGood ==
    /\ Accepted => /\ first_good = trained
                   /\ rebuilt = trained - 1
                   /\ trained <= 16
    /\ InStableInit => /\ rebuilt = trained - 1
                       /\ (first_good = 0 => num_init = trained)
    /\ first_good \in 1..16 => /\ trained = first_good
                               /\ ~Failed
    /\ scenario = 3 => /\ trained = 3
                       /\ rebuilt = 2
                       /\ ~Failed

Wit_C1_ExampleAccepted == scenario = 3 /\ pc = "dispatch" /\ rebuilt = 2

\* C2: when every observed loss is NaN or above 4, stable_init raises exactly
\* after the 16th rebuild, when the attempt counter first exceeds 16: not
\* earlier, not later, and it never returns successfully.
Thm_C2_FailAfter16Retries ==
    /\ Failed => /\ rebuilt = 16
                 /\ trained = 17
    /\ (InStableInit /\ first_good = 0) => /\ rebuilt <= 16
                                           /\ num_init = rebuilt + 1
    /\ pc = "si_loop" => num_init <= 16
    /\ (first_good = 0 /\ trained > 0) => ~Accepted

Wit_C2_AllBadFailed == Failed /\ first_good = 0 /\ rebuilt = 16

\* C3: the limit error is raised only when no acceptable loss was produced:
\* an attempt whose loss is finite and <= 4 is never followed by FAIL.
CE_C3_FailOnlyWithoutGoodLoss == Failed => first_good = 0

\* C4: on every REINIT the next attempt's model is bound to a freshly
\* constructed network, not to the network object of the previous attempt.
CE_C4_ReinitFreshNetwork ==
    [][(pc = "si_loop" /\ pc' = "si_check") => model'.net # model.net]_vars

\* C5: outputWidth is 4 when heterogeneous and 3 otherwise.
CE_C5_OutputWidth == hp.output = IF heter THEN 4 ELSE 3

\* inverse mode is set: neither None nor the empty string
InverseSet == inverse \notin {None, Str(<<>>)}
\* the inverse flag string contains 'd'
InverseHasD == inverse \in {Str(<<"d">>), Str(<<"a", "d">>)}
ConfiguredLr == IF InverseSet THEN 1 ELSE 5

\* C6: the hyperparameters other than outputWidth are the documented 1D
\* defaults or 2D overrides; numTestPoints=1000, initEpochs=15000,
\* maxInitAttempts=16, maxInitialLoss=4 in both; learningRate is 1e-4 exactly
\* when inverseMode is non-empty and 5e-4 otherwise.
Thm_C6_Hyperparameters ==
    /\ dim = 1 => /\ hp.input = 2
                  /\ hp.num_hidden_layers = 4
                  /\ hp.hidden_layer_size = 32
                  /\ hp.num_domain = 20000
                  /\ hp.num_boundary = 1000
                  /\ hp.epochs_main = 1000
    /\ dim = 2 => /\ hp.input = 3
                  /\ hp.num_hidden_layers = 5
                  /\ hp.hidden_layer_size = 60
                  /\ hp.num_domain = 40000
                  /\ hp.num_boundary = 4000
                  /\ hp.epochs_main = 150000
    /\ hp.num_test = 1000
    /\ hp.epochs_init = 15000
    /\ hp.MAX_MODEL_INIT = 16
    /\ hp.MAX_LOSS = 4
    /\ hp.lr = ConfiguredLr

Wit_C6_TwoDimInverse ==
    dim = 2 /\ InverseSet /\ hp.lr = 1 /\ hp.epochs_main = 150000 /\ hp.input = 3

\* C7: define_pinn selects the residual and the output transform per the
\* table, and applies exactly one transform or none to the network.
Thm_C7_ResidualTable ==
    pde_data # NoData =>
        /\ dim = 1 => pde_data.pde = "pde_1D" /\ net.transforms = <<>>
        /\ (dim = 2 /\ ~heter) => pde_data.pde = "pde_2D" /\ net.transforms = <<>>
        /\ (dim = 2 /\ heter /\ InverseHasD) =>
               pde_data.pde = "pde_2D_heter" /\ net.transforms = <<"modify_inv_heter">>
        /\ (dim = 2 /\ heter /\ ~InverseHasD) =>
               pde_data.pde = "pde_2D_heter_forward" /\ net.transforms = <<"modify_heter">>
        /\ Len(net.transforms) <= 1
        /\ model.net = net.id
        /\ model.data = pde_data.id

Wit_C7_HeterForwardSelected ==
    /\ dim = 2 /\ heter /\ inverse = Str(<<"a">>)
    /\ last = "define_pinn" /\ err = "none"
    /\ pde_data.pde = "pde_2D_heter_forward"
    /\ net.transforms = <<"modify_heter">>

\* C8: define_pinn with a combination outside the table is rejected with an
\* explicit configuration error: nothing is defaulted, no model is built or
\* compiled, 0 is not returned.
RaisedExplicitly == {"ValueError", "UnsupportedConfiguration"}
CE_C8_ExplicitRejection ==
    (last = "define_pinn" /\ dim \notin {1, 2}) =>
        /\ err \in RaisedExplicitly
        /\ model = NoModel
        /\ pde_data = NoData

\* the engine calls of a phase without the model and the observers
Shape(c) ==
    [op |-> c.op, optimizer |-> c.optimizer, lr |-> c.lr,
     loss_weights |-> c.loss_weights, epochs |-> c.epochs]
Shapes(cs) == [i \in 1..Len(cs) |-> Shape(cs[i])]
IsPrefix(a, b) == Len(a) <= Len(b) /\ \A i \in 1..Len(a) : a[i] = b[i]

Schedule3 ==
    << [op |-> "compile", optimizer |-> "adam", lr |-> <<5>>,
        loss_weights |-> <<0, 0, 0, 0, 1>>, epochs |-> <<>>],
       [op |-> "train", optimizer |-> "adam", lr |-> <<5>>,
        loss_weights |-> <<0, 0, 0, 0, 1>>, epochs |-> <<15000>>],
       [op |-> "compile", optimizer |-> "adam", lr |-> <<ConfiguredLr>>,
        loss_weights |-> <<>>, epochs |-> <<>>],
       [op |-> "train", optimizer |-> "adam", lr |-> <<ConfiguredLr>>,
        loss_weights |-> <<>>, epochs |-> <<150000>>],
       [op |-> "compile", optimizer |-> "L-BFGS-B", lr |-> <<>>,
        loss_weights |-> <<>>, epochs |-> <<>>],
       [op |-> "train", optimizer |-> "L-BFGS-B", lr |-> <<>>,
        loss_weights |-> <<>>, epochs |-> <<>> ] >>

\* C9: for dimension 2, whatever the inverse mode, the schedule after
\* stabilization is exactly compile(Adam, 5e-4, weights [0,0,0,0,1]),
\* train(initEpochs), compile(Adam, configured rate, default weights),
\* train(mainEpochs), compile(L-BFGS, no rate), train(no epochs), nothing
\* interleaved.
Thm_C9_ThreePhaseSchedule ==
    dim = 2 =>
        /\ IsPrefix(Shapes(calls), Schedule3)
        /\ \A i \in 1..Len(calls) : calls[i].model = model.id
        /\ pc = "dispatch" => calls = <<>>
        /\ pc = "p3_main" => Len(calls) = 2
        /\ pc = "p3_final" => Len(calls) = 4
        /\ (pc = "ret" \/ (pc = "idle" /\ last = "train" /\ err = "none")) =>
               Shapes(calls) = Schedule3

Wit_C9_WarmupRateWithInverse ==
    /\ dim = 2 /\ InverseSet /\ pc = "ret"
    /\ Len(calls) = 6
    /\ calls[1].lr = <<5>> /\ calls[3].lr = <<1>>

TrainCalls == {i \in 1..Len(calls) : calls[i].op = "train"}
Observer ==
    [id |-> 1, period |-> 1000, filename |-> <<"variables_">> \o inverse.chars \o <<".dat">>]

\* C10: the observer (period 1000, file "variables_" + inverse + ".dat") is
\* attached to a phase training call iff inverse mode is non-empty: to the
\* single phase in 1D, to all three phases in 2D as one shared observer; when
\* inverse mode is unset no phase training call carries an observer.
Thm_C10_ObserverIffInverse ==
    /\ \A i \in TrainCalls :
           calls[i].callbacks = IF InverseSet THEN <<Observer>> ELSE <<>>
    /\ cbs <= 1
    /\ (pc = "ret" /\ dim = 1) => Cardinality(TrainCalls) = 1
    /\ (pc = "ret" /\ dim = 2) => Cardinality(TrainCalls) = 3

Wit_C10_SharedObserver ==
    /\ dim = 2 /\ inverse = Str(<<"a", "d">>) /\ pc = "ret"
    /\ \A i \in {2, 4, 6} :
           calls[i].callbacks = <<[id |-> 1, period |-> 1000,
                                   filename |-> <<"variables_", "a", "d", ".dat">>]>>

Succeeded == pc = "idle" /\ last = "train" /\ err = "none"

\* C11: train() runs stable_init to completion before any phase call; when
\* stable_init fails, train() aborts with the error, runs no phase and
\* returns no model; on acceptance it runs exactly one schedule: one training
\* call of mainEpochs without recompile for dimension 1, the 3-phase schedule
\* for dimension 2.
Thm_C11_StabilizeThenDispatch ==
    /\ InStableInit => calls = <<>>
    /\ calls # <<>> => /\ si_call.op = "train"
                       /\ first_good # 0
                       /\ first_good = trained
    /\ Failed => /\ calls = <<>>
                 /\ result = NoResult
    /\ ((pc = "ret" \/ Succeeded) /\ dim = 1) =>
           Shapes(calls) = << [op |-> "train", optimizer |-> "adam",
                               lr |-> <<ConfiguredLr>>, loss_weights |-> <<>>,
                               epochs |-> <<1000>>] >>
    /\ ((pc = "ret" \/ Succeeded) /\ dim = 2) =>
           /\ Len(calls) = 6
           /\ \A i \in 1..6 : calls[i].op = IF i \in {1, 3, 5} THEN "compile" ELSE "train"
           /\ calls[6].optimizer = "L-BFGS-B"
    /\ pc \in {"p3_main", "p3_final"} => dim = 2

Wit_C11_OnePhaseAfterRetry ==
    dim = 1 /\ pc = "ret" /\ rebuilt = 1 /\ Len(calls) = 1

\* C12: a successful train() returns the loss history and train state of the
\* last phase's training call (the Adam run in 1D, the quasi-Newton run in
\* 2D) with the live model, which is the model stabilization accepted and the
\* one every phase compiled and trained; one model is live throughout.
Thm_C12_ReturnsLastPhase ==
    /\ Succeeded =>
           /\ result.model = model.id
           /\ result.losshistory =
                  [model |-> model.id, phase |-> IF dim = 1 THEN "main" ELSE "final"]
           /\ result.train_state = result.losshistory
    /\ (pc \in {"dispatch", "p3_main", "p3_final", "ret"} \/ Succeeded) =>
           /\ si_call.model = model.id
           /\ \A i \in 1..Len(calls) : calls[i].model = model.id
    /\ pc \notin {"idle", "ni"} => model # NoModel

Wit_C12_RefineResultReturned ==
    /\ dim = 2 /\ Succeeded /\ rebuilt >= 1
    /\ result.losshistory.phase = "final"
    /\ result.model = model.id

\* C13: after construction no call of define_pinn, stable_init, train,
\* train_1_phase or train_3_phase, failing ones and retries included, changes
\* dim, heter, inverse or any hyperparameter; the warmup rate 5e-4 does not
\* overwrite the configured learning rate.
Thm_C13_ConfigurationFrozen ==
    [][dim' = dim /\ heter' = heter /\ inverse' = inverse /\ hp' = hp]_vars

Wit_C13_RateKeptAfterWarmup ==
    dim = 2 /\ InverseSet /\ pc = "p3_main" /\ model.lr = <<5>> /\ hp.lr = 1

\* the arguments of the running reconstruction
ValidSize == recon.size = recon.tend * recon.X * recon.Y
ScalarOrPadded == recon.D.scalar \/ recon.D = Array(<<recon.X + 2, recon.Y + 2>>)

\* C14: for a trainer built by the constructor, D a scalar or an array of
\* shape (max_x+2, max_y+2), and a field of max_t*max_x*max_y values,
\* num_integration completes without error and returns an array of shape
\* (K, max_t).
CE_C14_ReconstructionCompletes ==
    (pc = "ni" /\ ValidSize /\ ScalarOrPadded) =>
        /\ recon.err = "none"
        /\ recon.phie_pred.shape = <<recon.K, recon.tend>>

\* C15: with D neither a scalar nor an array of shape (max_x+2, max_y+2),
\* num_integration aborts with an error and returns no array: the loop of
\* lines 153-164 is not reached, and a D of at most two axes leaves D_array
\* unbound, which stops the call at its first use.
Thm_C15_MalformedDAborts ==
    (pc = "ni" /\ ValidSize /\ ~ScalarOrPadded) =>
        /\ recon.err # "none"
        /\ recon.phie_pred = NoArray
        /\ recon.line <= 147
        /\ Len(recon.D.shape) <= 2 =>
               /\ recon.D_array = "unbound"
               /\ recon.err \in {"IndexError", "UnboundLocalError"}

Wit_C15_UnboundDiffusionArray ==
    /\ pc = "ni" /\ ValidSize
    /\ recon.D = Array(<<recon.X + 2, recon.Y>>)
    /\ recon.err = "UnboundLocalError" /\ recon.line = 147

\* C16: for a field uniform over x,y at every time step and a scalar D,
\* num_integration returns a potential that is zero at every electrode and
\* every time step.
CE_C16_UniformFieldZeroPotential ==
    (pc = "ni" /\ ValidSize /\ recon.D.scalar /\ recon.uniform) =>
        /\ recon.err = "none"
        /\ recon.phie_pred.entries = "zero"

\* C17: stable_init always terminates: whatever the first-epoch losses are,
\* all NaN included, it trains a bounded number of models for one epoch each
\* and then either returns to train() or raises the limit error.
Thm_C17_StableInitTerminates ==
    /\ [](InStableInit => trained <= MAX_MODEL_INIT + 1)
    /\ InStableInit ~> (pc = "dispatch" \/ Failed)

Wit_C17_LastAttemptAllNaN ==
    /\ pc = "si_check" /\ num_init = MAX_MODEL_INIT + 1
    /\ first_good = 0 /\ loss_nan /\ isnan(initial_loss)

\* C18: in one run of stable_init the models initialised and trained for
\* one epoch, the assembled one and every rebuilt one, are at most
\* MAX_MODEL_INIT = 16.
CE_C18_AtMostSixteenModels ==
    (InStableInit \/ Failed) =>
        /\ trained <= MAX_MODEL_INIT
        /\ rebuilt + 1 <= MAX_MODEL_INIT

\* C19: stable_init never accepts a model whose first reported loss vector
\* has a NaN component, wherever the NaN stands in the vector.
CE_C19_NaNNeverAccepted == pc = "dispatch" => ~loss_nan

\* C20: over any sequence of define_pinn and train() calls, every
\* single-epoch stabilisation run is made on a model compiled for Adam at
\* the configured learning rate with default loss weights.
CE_C20_StabilizeOnAdamModel ==
    (InStableInit /\ si_call.op = "train") =>
        /\ si_call.optimizer = "adam"
        /\ si_call.lr = <<ConfiguredLr>>
        /\ si_call.loss_weights = <<>>

====
